---- MODULE Spec2Model ----
(***************************************************************************)
(* HFF_CellProfiler_kinetics_analysis.py as a state machine.               *)
(*                                                                         *)
(* The script is one forward pass over a pandas DataFrame `df`.  The model *)
(* holds df as a bag of rows (a record per row, the bag's count being the  *)
(* number of nuclei that share those measurements; nuc_num names such a    *)
(* class of nuclei inside its image), and has one action per step of the   *)
(* script, in the script's order, driven by pc.                            *)
(*                                                                         *)
(* Numbers.  The script computes in floating point; the model computes the *)
(* same expressions exactly.  Fluorescence (nuc_intens, image_background)  *)
(* is held as a number of thousandths, vacuole area after conversion as a *)
(* number of ten-thousandths of a square micron, moi as a number of        *)
(* hundredths.                                                             *)
(* Means and variances are exact fractions over arbitrary                  *)
(* precision integers (sequences of base-10000 digits), because sums of    *)
(* squares over images of more than 100 nuclei do not fit a machine word.  *)
(* A standard deviation s is never formed: a < k*s is decided as           *)
(* a*a < k*k*(s*s), both sides being non-negative.  Where the exact values *)
(* tie and rounding alone decides the script's comparison (the mean and    *)
(* the std of a column that holds one non-integer value on every row), the *)
(* model takes either outcome.                                             *)
(***************************************************************************)
EXTENDS Integers, Sequences, FiniteSets, Bags, TLC

VARIABLES
    pc,                  \* the step of the script that runs next
    files,               \* the rows of each CSV file of working_dir, in listing order
    df,                  \* the DataFrame df
    numcells,            \* line 222
    toolittle_cells,     \* line 229
    noparasite_cells,    \* line 241
    outliercells,        \* line 257
    oversegmentedcells,  \* line 265
    uninfectednucintens, \* line 273
    subsets,             \* df, df_inf, df_singleinf, df_pos after lines 290-300
    perwell,             \* df_HFF_perwell_{all,inf,singleinf,pos}, lines 306-316
    statdf,              \* statdf_HFF_perwell_{all,inf,singleinf,pos}, lines 322-332
    df_initial,          \* df as it was when numcells was recorded (line 222)
    prev                 \* df as it was when the last step started

vars == <<pc, files, df, numcells, toolittle_cells, noparasite_cells, outliercells,
          oversegmentedcells, uninfectednucintens, subsets, perwell, statdf,
          df_initial, prev>>

-----------------------------------------------------------------------------
(* Exact arithmetic standing for the script's float arithmetic.            *)

\* a missing value (NaN) in an integer-valued column
NaN == -1000000000

Base == 10000

Abs(a) == IF a >= 0 THEN a ELSE -a

RECURSIVE NNat(_)
\* the natural number n as little-endian base-10000 digits, <<>> being 0
NNat(n) == IF n = 0 THEN <<>> ELSE <<n % Base>> \o NNat(n \div Base)

Rest(a) == IF a = <<>> THEN <<>> ELSE Tail(a)

Dig(a) == IF a = <<>> THEN 0 ELSE Head(a)

RECURSIVE NAddC(_, _, _)
NAddC(a, b, c) ==
    IF a = <<>> /\ b = <<>>
    THEN NNat(c)
    ELSE LET x == Dig(a) + Dig(b) + c
         IN  <<x % Base>> \o NAddC(Rest(a), Rest(b), x \div Base)

NAdd(a, b) == NAddC(a, b, 0)

RECURSIVE NStrip(_)
NStrip(a) ==
    IF a = <<>> THEN <<>>
    ELSE IF a[Len(a)] = 0 THEN NStrip(SubSeq(a, 1, Len(a) - 1)) ELSE a

RECURSIVE NCmpTop(_, _, _)
NCmpTop(a, b, i) ==
    IF i = 0 THEN 0
    ELSE IF a[i] < b[i] THEN -1
    ELSE IF a[i] > b[i] THEN 1
    ELSE NCmpTop(a, b, i - 1)

\* -1, 0, 1 as a < b, a = b, a > b
NCmp(a, b) ==
    IF Len(a) < Len(b) THEN -1
    ELSE IF Len(a) > Len(b) THEN 1
    ELSE NCmpTop(a, b, Len(a))

RECURSIVE NSubB(_, _, _)
NSubB(a, b, c) ==
    IF a = <<>> THEN <<>>
    ELSE LET x == Dig(a) - Dig(b) - c
         IN  IF x < 0
             THEN <<x + Base>> \o NSubB(Rest(a), Rest(b), 1)
             ELSE <<x>> \o NSubB(Rest(a), Rest(b), 0)

\* a - b for a >= b
NSub(a, b) == NStrip(NSubB(a, b, 0))

RECURSIVE NMulD(_, _, _)
NMulD(a, d, c) ==
    IF a = <<>> THEN NNat(c)
    ELSE LET x == Head(a) * d + c
         IN  <<x % Base>> \o NMulD(Tail(a), d, x \div Base)

NShift(a) == IF a = <<>> THEN <<>> ELSE <<0>> \o a

RECURSIVE NMul(_, _)
NMul(a, b) ==
    IF a = <<>> \/ b = <<>> THEN <<>>
    ELSE NAdd(NMulD(a, Head(b), 0), NShift(NMul(a, Tail(b))))

\* signed integers: s is 1 or -1 (1 for zero), m the magnitude
ZInt(n) == [s |-> IF n < 0 THEN -1 ELSE 1, m |-> NNat(Abs(n))]

ZNeg(a) == IF a.m = <<>> THEN a ELSE [s |-> -a.s, m |-> a.m]

ZAdd(a, b) ==
    IF a.s = b.s THEN [s |-> a.s, m |-> NAdd(a.m, b.m)]
    ELSE LET c == NCmp(a.m, b.m)
         IN  IF c = 0 THEN [s |-> 1, m |-> <<>>]
             ELSE IF c > 0 THEN [s |-> a.s, m |-> NSub(a.m, b.m)]
             ELSE [s |-> b.s, m |-> NSub(b.m, a.m)]

ZSub(a, b) == ZAdd(a, ZNeg(b))

ZMul(a, b) ==
    LET m == NMul(a.m, b.m)
    IN  [s |-> IF m = <<>> THEN 1 ELSE a.s * b.s, m |-> m]

ZLess(a, b) ==
    IF a.s # b.s THEN a.s < b.s
    ELSE IF a.s = 1 THEN NCmp(a.m, b.m) < 0 ELSE NCmp(a.m, b.m) > 0

\* fractions n/d with d > 0 (d = 0 is a missing value, NaN); not reduced
Q(n, d) == [n |-> ZInt(n), d |-> ZInt(d)]

QNaN == Q(0, 0)

QIsNaN(a) == a.d.m = <<>>

QAdd(a, b) == [n |-> ZAdd(ZMul(a.n, b.d), ZMul(b.n, a.d)), d |-> ZMul(a.d, b.d)]

QSub(a, b) == [n |-> ZSub(ZMul(a.n, b.d), ZMul(b.n, a.d)), d |-> ZMul(a.d, b.d)]

QMul(a, b) == [n |-> ZMul(a.n, b.n), d |-> ZMul(a.d, b.d)]

\* a / k for an integer k > 0
QDivInt(a, k) == [n |-> a.n, d |-> ZMul(a.d, ZInt(k))]

QEq(a, b) == ZMul(a.n, b.d) = ZMul(b.n, a.d)

QLess(a, b) == ZLess(ZMul(a.n, b.d), ZMul(b.n, a.d))

-----------------------------------------------------------------------------
(* Bags of rows.                                                           *)

RECURSIVE SumF(_, _)
\* the sum of f over the finite set S
SumF(f, S) ==
    IF S = {} THEN 0
    ELSE LET x == CHOOSE x \in S : TRUE IN f[x] + SumF(f, S \ {x})

\* df.loc[mask]: the rows of B that are in the set S, each as often as in B
Loc(B, S) == [r \in S \cap DOMAIN B |-> B[r]]

\* df.shape[0]
Shape0(B) == BagCardinality(B)

-----------------------------------------------------------------------------
(* The plate, lines 205-211.  moi is held in hundredths: 3, 1, 0.33, 0.    *)

plate_columns_map ==
    [c \in {"01", "02", "03", "04", "05", "06", "07", "08"} |-> "HA"]
    @@ [c \in {"09", "10", "11", "12", "13", "14", "15", "16"} |-> "MECP"]
    @@ [c \in {"17", "18", "19", "20", "21", "22", "23", "24"} |-> "TFEB"]

plate_rows_map ==
    [r \in {"A", "B", "C", "D", "E"} |-> 300]
    @@ [r \in {"F", "G", "H", "I", "J"} |-> 100]
    @@ [r \in {"K", "L", "M", "N", "O"} |-> 33]
    @@ [r \in {"P"} |-> 0]

DigitStr == <<"0", "1", "2", "3", "4", "5", "6", "7", "8", "9">>

RECURSIVE NatStr(_)
NatStr(n) == IF n < 10 THEN DigitStr[n + 1] ELSE NatStr(n \div 10) \o DigitStr[(n % 10) + 1]

\* str() of an element of the column moi: "3", "1", "0" when the column holds
\* integers, "3.0", "1.0", "0.33", "0.0" when it holds floats
MoiStr(moi, dtype) ==
    IF dtype = "int64" THEN NatStr(moi \div 100)
    ELSE NatStr(moi \div 100) \o "." \o
         (IF moi % 10 = 0 THEN DigitStr[((moi % 100) \div 10) + 1]
          ELSE DigitStr[((moi % 100) \div 10) + 1] \o DigitStr[(moi % 10) + 1])

-----------------------------------------------------------------------------
(* label_conditions, lines 5-17.  A well label "B - 01" is held as the     *)
(* pair its split gives, <<"B", "01">>.  The column moi holds integers     *)
(* unless a well of moi 0.33 is among the rows; its dtype is held on every *)
(* row as moi_dtype.                                                       *)

label_conditions(B) ==
    LET dtype == IF \E r \in DOMAIN B : plate_rows_map[r.row] % 100 # 0
                 THEN "float64" ELSE "int64"
        Strain(r) == IF plate_rows_map[r.row] = 0 THEN "null"
                     ELSE plate_columns_map[r.column]
        Label(r) == r @@ [strain |-> Strain(r),
                          moi |-> plate_rows_map[r.row],
                          moi_dtype |-> dtype,
                          condition |-> Strain(r) \o MoiStr(plate_rows_map[r.row], dtype)]
    IN  BagOfAll(Label, B)

-----------------------------------------------------------------------------
(* The image of a row: its (condition, timepoint, well, field) group.      *)

ImageKey(r) == <<r.condition, r.timepoint, r.well, r.field>>

ConditionKey(r) == <<r.condition, r.timepoint>>

\* calc_image_numcells, lines 19-23, on the rows G of one image
calc_image_numcells(G) == BagOfAll(LAMBDA r : r @@ [image_numnuc |-> Shape0(G)], G)

\* calc_image_PVcount, lines 26-30, on the rows G of one image
calc_image_PVcount(G) ==
    LET v == SumF([r \in DOMAIN G |-> G[r] * r.count], DOMAIN G)
    IN  BagOfAll(LAMBDA r : r @@ [image_PVcount |-> v], G)

-----------------------------------------------------------------------------
(* Series.quantile(q) and Series.mean() over a column of a bag of rows.    *)
(* V[r] is the row's value; rows whose value is missing are skipped.       *)

\* number of values <= v
CountLE(B, V, S, v) == SumF([r \in {x \in S : V[x] <= v} |-> B[r]], {x \in S : V[x] <= v})

\* the i-th smallest value, i counted from 0
ValueAt(B, V, S, i) ==
    CHOOSE v \in {V[r] : r \in S} :
        /\ CountLE(B, V, S, v) > i
        /\ \A u \in {V[r] : r \in S} : u < v => CountLE(B, V, S, u) <= i

\* the qn/qd quantile with linear interpolation between the two nearest ranks;
\* NaN over no value.  The division is exact on the inputs of this model.
Quantile(B, V, qn, qd) ==
    LET S  == {r \in DOMAIN B : V[r] # NaN}
        m  == SumF([r \in S |-> B[r]], S)
        i  == ((m - 1) * qn) \div qd
        f  == ((m - 1) * qn) % qd
        lo == ValueAt(B, V, S, i)
        hi == ValueAt(B, V, S, IF i + 1 < m THEN i + 1 ELSE i)
    IN  IF m = 0 THEN NaN ELSE lo + (f * (hi - lo)) \div qd

RECURSIVE ZProd(_)
\* the product of a finite set of integers
ZProd(S) ==
    IF S = {} THEN ZInt(1)
    ELSE LET x == CHOOSE x \in S : TRUE IN ZMul(x, ZProd(S \ {x}))

RECURSIVE ZSumF(_, _)
ZSumF(f, S) ==
    IF S = {} THEN ZInt(0)
    ELSE LET x == CHOOSE x \in S : TRUE IN ZAdd(f[x], ZSumF(f, S \ {x}))

\* the mean of an integer column, as a fraction; QNaN over no value
MeanInt(B, V) ==
    LET S == {r \in DOMAIN B : V[r] # NaN}
        m == SumF([r \in S |-> B[r]], S)
    IN  IF m = 0 THEN QNaN
        ELSE [n |-> ZSumF([r \in S |-> ZMul(ZInt(B[r]), ZInt(V[r]))], S), d |-> ZInt(m)]

\* A fraction-valued column as the bag of its values, missing values left out
Column(B, V) == BagOfAll(LAMBDA r : V[r], Loc(B, {r \in DOMAIN B : ~QIsNaN(V[r])}))

\* the numerator of the value v of the column C over the product of the
\* denominators that occur in C
Num(C, v) == ZMul(v.n, ZProd({u.d : u \in DOMAIN C} \ {v.d}))

Den(C) == ZProd({u.d : u \in DOMAIN C})

\* the sum of the column, over the denominator Den(C)
ColumnSum(C) == ZSumF([v \in DOMAIN C |-> ZMul(ZInt(C[v]), Num(C, v))], DOMAIN C)

\* Series.mean() of a fraction-valued column; QNaN over no value
MeanQ(B, V) ==
    LET C == Column(B, V)
    IN  IF C = EmptyBag THEN QNaN
        ELSE [n |-> ColumnSum(C), d |-> ZMul(Den(C), ZInt(BagCardinality(C)))]

\* the square of Series.std() (ddof = 1) of a fraction-valued column:
\* the sum of (v - mean)^2 over the rows, divided by rows - 1; QNaN under two rows
VarQ(B, V) ==
    LET C      == Column(B, V)
        rows   == BagCardinality(C)
        total  == ColumnSum(C)
        \* v - mean, over the denominator Den(C) * rows
        Dev(v) == ZSub(ZMul(ZInt(rows), Num(C, v)), total)
        sq     == ZSumF([v \in DOMAIN C |-> ZMul(ZInt(C[v]), ZMul(Dev(v), Dev(v)))],
                        DOMAIN C)
        d      == ZMul(Den(C), ZInt(rows))
    IN  IF rows < 2 THEN QNaN
        ELSE [n |-> sq, d |-> ZMul(ZMul(d, d), ZInt(rows - 1))]

-----------------------------------------------------------------------------
(* calc_image_stat, lines 33-49, on the rows G of one image.               *)

calc_image_stat(G, param) ==
    IF param = "background"
    THEN LET Z == Loc(G, {r \in DOMAIN G : r.count = 0})
             v == Quantile(Z, [r \in DOMAIN Z |-> r.nuc_intens], 1, 10)
         IN  BagOfAll(LAMBDA r : r @@ [image_background |-> v], G)
    ELSE IF param = "mean_intens"
    THEN LET v == MeanInt(G, [r \in DOMAIN G |-> r.nuc_intens])
         IN  BagOfAll(LAMBDA r : r @@ [image_mean_intens |-> v], G)
    ELSE LET v == SumF([r \in DOMAIN G |-> G[r] * r.count], DOMAIN G)
         IN  BagOfAll(LAMBDA r : r @@ [image_totalcount |-> Q(v, 1)], G)

\* df.groupby(keys): the groups of B, K[r] being the key of the row r
Groups(B, K) == {Loc(B, {r \in DOMAIN B : K[r] = k}) : k \in {K[r] : r \in DOMAIN B}}

\* groupby(['condition', 'timepoint', 'well', 'field'])
ByImage(B) == Groups(B, [r \in DOMAIN B |-> ImageKey(r)])

\* groupby(['condition', 'timepoint'])
ByCondition(B) == Groups(B, [r \in DOMAIN B |-> ConditionKey(r)])

\* groupby(['well', 'field'])
ByWellField(B) == Groups(B, [r \in DOMAIN B |-> <<r.well, r.field>>])

-----------------------------------------------------------------------------
(* remove_outliers_image, lines 52-73, on the rows G of one                *)
(* (condition, timepoint) group.                                           *)

num_std(param) == IF param = "mean_intens" THEN 5 ELSE 3

\* line 65: the mean and the squared std of the column image_<param> of the group
ConditionMean(G, V) == MeanQ(G, V)

ConditionVar(G, V) == VarQ(G, V)

\* lines 71-72 as the negation of >=: a missing value is kept
WithinStd_notge(x, mean, var, k) ==
    \/ QIsNaN(x)
    \/ QIsNaN(mean)
    \/ QIsNaN(var)
    \/ QLess(QMul(QSub(mean, x), QSub(mean, x)), QMul(Q(k * k, 1), var))

\* lines 71-72: (condition_mean - x).abs() < num_std * condition_std
WithinStd_le(x, mean, var, k) ==
    /\ ~QIsNaN(x) /\ ~QIsNaN(mean) /\ ~QIsNaN(var)
    /\ ~QLess(QMul(Q(k * k, 1), var), QMul(QSub(mean, x), QSub(mean, x)))

WithinStd(x, mean, var, k) ==
    /\ ~QIsNaN(x)
    /\ ~QIsNaN(mean)
    /\ ~QIsNaN(var)
    /\ QLess(QMul(QSub(mean, x), QSub(mean, x)), QMul(Q(k * k, 1), var))

ImageStat(r, param) ==
    IF param = "mean_intens" THEN r.image_mean_intens ELSE r.image_totalcount

\* line 63
ImageStats(G, param) == BagUnion({calc_image_stat(I, param) : I \in ByWellField(G)})

\* line 65 on a column that holds one value v on every row that has a value.
\* Sums of integers (parasite totals) do not round: the mean is v and the
\* std is 0.  A sum of n equal fractions (image means) may round: the mean is
\* then off v by some e and the std is e * sqrt(n / (n - 1)).
ConstantStat(G, param) ==
    LET G1  == ImageStats(G, param)
        var == ConditionVar(G1, [r \in DOMAIN G1 |-> ImageStat(r, param)])
    IN  ~QIsNaN(var) /\ QEq(var, Q(0, 1))

\* rounded: the sums of line 65 rounded on a column of one value
remove_outliers_image(G, param, rounded) ==
    LET G1   == ImageStats(G, param)
        V    == [r \in DOMAIN G1 |-> ImageStat(r, param)]
        mean == ConditionMean(G1, V)
        var  == ConditionVar(G1, V)
    IN  IF rounded /\ param = "mean_intens" /\ ConstantStat(G, param)
        THEN \* e < 5 * e * sqrt(n / (n - 1)) on every row that has a value
             Loc(G1, {r \in DOMAIN G1 : ~QIsNaN(V[r])})
        ELSE Loc(G1, {r \in DOMAIN G1 : WithinStd(V[r], mean, var, num_std(param))})

-----------------------------------------------------------------------------
(* make_t0, lines 76-99.                                                   *)

RECURSIVE AppendMois(_, _, _, _)
\* lines 93-98, the inner loop for one strain
AppendMois(B, t0_df, strain, mois) ==
    IF mois = {} THEN B
    ELSE LET moi  == CHOOSE m \in mois : \A n \in mois : m <= n
             copy == BagOfAll(LAMBDA r :
                         [r EXCEPT !.moi = moi, !.strain = strain,
                                   !.condition = strain \o MoiStr(moi, r.moi_dtype)], t0_df)
         IN  AppendMois(B (+) copy, t0_df, strain, mois \ {moi})

RECURSIVE AppendStrains(_, _, _, _)
\* lines 92-98, the outer loop
AppendStrains(B, t0_df, strains, mois) ==
    IF strains = {} THEN B
    ELSE LET strain == CHOOSE x \in strains : TRUE
         IN  AppendStrains(AppendMois(B, t0_df, strain, mois), t0_df,
                           strains \ {strain}, mois)

\* make_t0 without line 86: the uninfected rows stay in the frame
make_t0_keep(B) ==
    LET t0_df    == BagOfAll(LAMBDA r : [r EXCEPT !.timepoint = 0],
                             Loc(B, {r \in DOMAIN B : r.strain = "null"}))
        infected == Loc(B, {r \in DOMAIN B : r.strain # "null"})
        mois     == {r.moi : r \in DOMAIN infected}
        strains  == {r.strain : r \in DOMAIN infected}
    IN  AppendStrains(B, t0_df, strains, mois)

\* make_t0 with one copy per (strain, moi) pair of an infected row
make_t0_pairs(B) ==
    LET t0_df    == BagOfAll(LAMBDA r : [r EXCEPT !.timepoint = 0],
                             Loc(B, {r \in DOMAIN B : r.strain = "null"}))
        infected == Loc(B, {r \in DOMAIN B : r.strain # "null"})
        pairs    == {<<r.strain, r.moi>> : r \in DOMAIN infected}
        Copy(p)  == BagOfAll(LAMBDA r :
                        [r EXCEPT !.moi = p[2], !.strain = p[1],
                                  !.condition = p[1] \o MoiStr(p[2], r.moi_dtype)], t0_df)
    IN  infected (+) BagUnion({Copy(p) : p \in pairs})

make_t0(B) ==
    LET t0_df    == BagOfAll(LAMBDA r : [r EXCEPT !.timepoint = 0],
                             Loc(B, {r \in DOMAIN B : r.strain = "null"}))
        infected == Loc(B, {r \in DOMAIN B : r.strain # "null"})
        mois     == {r.moi : r \in DOMAIN infected}
        strains  == {r.strain : r \in DOMAIN infected}
    IN  AppendStrains(infected, t0_df, strains, mois)

-----------------------------------------------------------------------------
(* per_group_stats, lines 102-160.  A statistics table is a bag of rows,   *)
(* one per group; of describe()'s columns the model keeps count and mean.  *)

\* lines 107-130: the statistics of every (moi, timepoint, strain, well) group
per_well_stats(T) ==
    LET Key(r) == <<r.moi, r.timepoint, r.strain, r.well>>
        G(k)   == Loc(T, {r \in DOMAIN T : Key(r) = k})
        Col(k, c) == MeanInt(G(k), [r \in DOMAIN G(k) |-> r[c]])
        n(k)   == BagCardinality(Loc(G(k), {r \in DOMAIN G(k) : r.nuc_intens # NaN}))
    IN  SetToBag({[moi |-> k[1], timepoint |-> k[2], strain |-> k[3], well |-> k[4],
                   count |-> n(k),
                   mean_intens |-> Col(k, "nuc_intens"),
                   mean_percentposnuc |-> Col(k, "pos_nuc"),
                   mean_percentinf |-> Col(k, "infection"),
                   mean_count |-> Col(k, "count"),
                   mean_PVarea |-> Col(k, "PV_area")] : k \in {Key(r) : r \in DOMAIN T}})

\* lines 132-155 with every well counted as often as it has nuclei
per_condition_stats_weighted(T) ==
    LET Key(r) == <<r.moi, r.timepoint, r.strain>>
        G(k)   == Loc(T, {r \in DOMAIN T : Key(r) = k /\ r.count > 0})
        W(k)   == [r \in DOMAIN G(k) |-> r.count]
        Col(k, c) == MeanQ(W(k), [r \in DOMAIN G(k) |-> r[c]])
        n(k)   == BagCardinality(Loc(G(k), {r \in DOMAIN G(k) : ~QIsNaN(r.mean_intens)}))
    IN  SetToBag({[moi |-> k[1], timepoint |-> k[2], strain |-> k[3],
                   count |-> n(k),
                   mean_intens |-> Col(k, "mean_intens"),
                   mean_percentposnuc |-> Col(k, "mean_percentposnuc"),
                   mean_percentinf |-> Col(k, "mean_percentinf"),
                   mean_count |-> Col(k, "mean_count"),
                   mean_PVarea |-> Col(k, "mean_PVarea")] : k \in {Key(r) : r \in DOMAIN T}})

\* lines 132-155: the statistics of every (moi, timepoint, strain) group of a
\* table of per-well statistics
per_condition_stats(T) ==
    LET Key(r) == <<r.moi, r.timepoint, r.strain>>
        G(k)   == Loc(T, {r \in DOMAIN T : Key(r) = k})
        Col(k, c) == MeanQ(G(k), [r \in DOMAIN G(k) |-> r[c]])
        n(k)   == BagCardinality(Loc(G(k), {r \in DOMAIN G(k) : ~QIsNaN(r.mean_intens)}))
    IN  SetToBag({[moi |-> k[1], timepoint |-> k[2], strain |-> k[3],
                   count |-> n(k),
                   mean_intens |-> Col(k, "mean_intens"),
                   mean_percentposnuc |-> Col(k, "mean_percentposnuc"),
                   mean_percentinf |-> Col(k, "mean_percentinf"),
                   mean_count |-> Col(k, "mean_count"),
                   mean_PVarea |-> Col(k, "mean_PVarea")] : k \in {Key(r) : r \in DOMAIN T}})

per_group_stats(T, group) ==
    IF group = "well" THEN per_well_stats(T) ELSE per_condition_stats(T)

-----------------------------------------------------------------------------
(* The input: the rows the CSV files hold, as read and renamed by lines    *)
(* 172-186.  An image is described by the classes of nuclei it contains:   *)
(* up to two classes without parasites and one class with parasites.       *)
(* Intensities are in thousandths and are multiples of 10; a vacuole area  *)
(* is in pixels and is missing for a nucleus without parasites.            *)

\* the largest number of nuclei above 100 (and above 0) tried for a class
MaxExtra == 1

\* the largest number of parasites per nucleus tried in the varied image
MaxCount == 4

\* the number of nuclei of a large image
BigRows == 1500

Profile(a, xa, b, xb, m, c, xc, area) ==
    {[k |-> 1, n |-> a, count |-> 0, x |-> xa, area |-> NaN],
     [k |-> 2, n |-> b, count |-> 0, x |-> xb, area |-> NaN],
     [k |-> 3, n |-> m, count |-> c, x |-> xc, area |-> area]}

RawRow(well, field, timepoint, c) ==
    [nuc_num |-> c.k, field |-> field, timepoint |-> timepoint, well |-> well,
     nuc_intens |-> c.x, count |-> c.count, PV_area |-> c.area]

\* the rows of one image
Image(well, field, timepoint, cells) ==
    LET cs == {c \in cells : c.n > 0}
    IN  [r \in {RawRow(well, field, timepoint, c) : c \in cs} |->
            (CHOOSE c \in cs : RawRow(well, field, timepoint, c) = r).n]

\* uninfected wells (row P), timepoint 2
NullWells ==
    Image(<<"P", "01">>, 1, 2, Profile(11, 100, 95, 110, 2, 1, 130, 100))
    (+) Image(<<"P", "01">>, 2, 2, Profile(20, 100, 100, 110, 0, 1, 120, 100))
    (+) Image(<<"P", "09">>, 1, 2, Profile(30, 100, 80, 110, 3, 2, 130, 200))

\* strain HA at moi 3, timepoint 2: two wells of unequal size
HA3Wells ==
    Image(<<"B", "01">>, 1, 2, Profile(10, 100, 60, 110, 40, 2, 140, 100))
    (+) Image(<<"B", "01">>, 2, 2, Profile(10, 100, 80, 110, 50, 1, 125, 150))
    (+) Image(<<"C", "01">>, 1, 2, Profile(15, 100, 75, 110, 30, 3, 150, 120))

\* strain HA at moi 3, timepoint 2: two large images
HA3BigWells ==
    Image(<<"B", "01">>, 1, 2, Profile(200, 100, BigRows - 300, 110, 100, 1, 110, 100))
    (+) Image(<<"C", "01">>, 1, 2, Profile(200, 100, BigRows - 302, 110, 102, 1, 200, 100))

\* strain MECP at moi 1, labelled 21 hours: two wells of equal size
MECP1Wells ==
    Image(<<"F", "09">>, 1, 21, Profile(10, 100, 90, 110, 10, 1, 140, 100))
    (+) Image(<<"G", "09">>, 1, 21, Profile(10, 100, 80, 110, 20, 2, 140, 200))

\* strain HA at moi 1, timepoint 2: two wells of unequal size, dim nuclei
HA1Wells ==
    Image(<<"F", "01">>, 1, 2, Profile(10, 100, 90, 110, 10, 1, 110, 100))
    (+) Image(<<"G", "01">>, 1, 2, Profile(10, 100, 100, 110, 20, 1, 105, 200))

\* strain HA at moi 3, timepoint 30
HA3LateWells ==
    Image(<<"B", "01">>, 1, 30, Profile(10, 100, 90, 110, 10, 1, 140, 100))
    (+) Image(<<"C", "01">>, 1, 30, Profile(10, 100, 80, 110, 20, 2, 140, 200))

\* strain HA at moi 0.33, timepoint 2
HA033Wells ==
    Image(<<"K", "01">>, 1, 2, Profile(10, 100, 90, 110, 5, 1, 120, 100))
    (+) Image(<<"L", "01">>, 1, 2, Profile(10, 100, 95, 110, 8, 1, 115, 100))

\* column 17, timepoint 2: at moi 3 two images with the same parasite total,
\* at moi 1 one image
TFEBWells ==
    Image(<<"B", "17">>, 1, 2, Profile(10, 100, 80, 110, 20, 1, 130, 100))
    (+) Image(<<"C", "17">>, 1, 2, Profile(10, 100, 100, 110, 10, 2, 140, 100))
    (+) Image(<<"F", "17">>, 1, 2, Profile(10, 100, 90, 110, 10, 1, 130, 100))

\* images that the filters remove: too few nuclei; an inoculated well without
\* parasites; a small image much brighter than the large images of its group
ArtefactWells ==
    Image(<<"D", "01">>, 1, 2, Profile(50, 100, 0, 100, 10, 1, 140, 100))
    (+) Image(<<"D", "01">>, 2, 2, Profile(20, 100, 100, 110, 0, 1, 140, 100))
    (+) Image(<<"D", "01">>, 3, 2, Profile(1, 100, 0, 100, 100, 1, 400, 100))

Bases ==
    {EmptyBag,
     NullWells (+) HA3Wells (+) TFEBWells,
     NullWells (+) HA3Wells (+) MECP1Wells (+) HA1Wells (+) HA3LateWells (+) HA033Wells,
     NullWells (+) HA3BigWells (+) ArtefactWells}

\* the varied image: in an HA moi-3 well, an uninfected well or a well of row A,
\* with a nuclei without parasites and m nuclei with c parasites each
ClassSizes == (0 .. MaxExtra) \cup (100 .. 100 + MaxExtra)

Probes ==
    {Image(<<row, "02">>, 1, 2, Profile(a, 100, 0, 100, m, c, 110, 100)) :
        row \in {"A", "B", "P"}, a \in ClassSizes,
        m \in {0} \cup (100 .. 100 + MaxExtra), c \in 1 .. MaxCount}

\* an empty directory, or two files: a plate and the varied image
Inputs == {<<>>} \cup {<<base, probe>> : base \in Bases, probe \in Probes}

-----------------------------------------------------------------------------
(* The script, lines 163-334, one action per step.                         *)

\* pandas raises on some operations over a frame without rows, depending on
\* its version: a step that may raise there either fails or goes on
Outcomes(empty, next) == IF empty THEN {"error", next} ELSE {next}

Init ==
    /\ pc = "read"
    /\ files \in Inputs
    /\ df = EmptyBag
    /\ numcells = 0
    /\ toolittle_cells = 0
    /\ noparasite_cells = 0
    /\ outliercells = 0
    /\ oversegmentedcells = 0
    /\ uninfectednucintens = NaN
    /\ subsets = <<>>
    /\ perwell = <<>>
    /\ statdf = <<>>
    /\ df_initial = EmptyBag
    /\ prev = EmptyBag

RECURSIVE Concat(_)
\* pd.concat of a non-empty list of frames
Concat(frames) == IF frames = <<>> THEN EmptyBag ELSE Head(frames) (+) Concat(Tail(frames))

\* lines 172-186: pd.concat raises on a list without frames
Read ==
    /\ pc = "read"
    /\ pc' = IF files = <<>> THEN "error" ELSE "prepare"
    /\ df' = Concat(files)
    /\ prev' = df
    /\ UNCHANGED <<files, numcells, toolittle_cells, noparasite_cells, outliercells,
                   oversegmentedcells, uninfectednucintens, subsets, perwell, statdf,
                   df_initial>>

\* lines 189-199: split the well label, 21 h is 24 h, drop row A, pixels to
\* square microns (0.1369 per pixel, the area held in ten-thousandths)
PrepareRow(r) ==
    [nuc_num |-> r.nuc_num, field |-> r.field, well |-> r.well,
     nuc_intens |-> r.nuc_intens, count |-> r.count,
     row |-> r.well[1], column |-> r.well[2],
     timepoint |-> IF r.timepoint = 21 THEN 24 ELSE r.timepoint,
     PV_area |-> IF r.PV_area = NaN THEN NaN ELSE r.PV_area * 1369]

Prepare ==
    /\ pc = "prepare"
    /\ pc' \in Outcomes(df = EmptyBag, "label")
    /\ df' = IF pc' = "error" THEN df
             ELSE LET B == BagOfAll(PrepareRow, df)
                  IN  Loc(B, {r \in DOMAIN B : r.row # "A"})
    /\ prev' = df
    /\ UNCHANGED <<files, df_initial, numcells, toolittle_cells, noparasite_cells, outliercells,
                   oversegmentedcells, uninfectednucintens, subsets, perwell, statdf>>

\* line 213
Label ==
    /\ pc = "label"
    /\ pc' = "infection"
    /\ df' = label_conditions(df)
    /\ prev' = df
    /\ UNCHANGED <<files, df_initial, numcells, toolittle_cells, noparasite_cells, outliercells,
                   oversegmentedcells, uninfectednucintens, subsets, perwell, statdf>>

\* lines 216-217
Infection ==
    /\ pc = "infection"
    /\ pc' \in Outcomes(df = EmptyBag, "numcells")
    /\ df' = IF pc' = "error" THEN df
             ELSE BagOfAll(LAMBDA r :
                      r @@ [infection |-> IF r.count > 0 THEN 100 ELSE 0], df)
    /\ prev' = df
    /\ UNCHANGED <<files, df_initial, numcells, toolittle_cells, noparasite_cells, outliercells,
                   oversegmentedcells, uninfectednucintens, subsets, perwell, statdf>>

\* lines 222-223
Numcells ==
    /\ pc = "numcells"
    /\ pc' = "toolittle"
    /\ numcells' = Shape0(df)
    /\ df_initial' = df
    /\ prev' = df
    /\ UNCHANGED <<files, df, toolittle_cells, noparasite_cells, outliercells,
                   oversegmentedcells, uninfectednucintens, subsets, perwell, statdf>>

\* lines 226-227 with >= in the place of >
LowCellFilter_ge(B) ==
    LET B1 == BagUnion({calc_image_numcells(G) : G \in ByImage(B)})
    IN  Loc(B1, {r \in DOMAIN B1 : r.image_numnuc >= 100})

\* lines 226-227
LowCellFilter(B) ==
    LET B1 == BagUnion({calc_image_numcells(G) : G \in ByImage(B)})
    IN  Loc(B1, {r \in DOMAIN B1 : r.image_numnuc > 100})

\* lines 226-231; the percentage of line 230 divides by numcells
TooLittle ==
    /\ pc = "toolittle"
    /\ pc' = IF numcells = 0 THEN "error" ELSE "noparasite"
    /\ df' = IF pc' = "error" THEN df ELSE LowCellFilter(df)
    /\ toolittle_cells' = numcells - Shape0(LowCellFilter(df))
    /\ prev' = df
    /\ UNCHANGED <<files, df_initial, numcells, noparasite_cells, outliercells,
                   oversegmentedcells, uninfectednucintens, subsets, perwell, statdf>>

\* lines 238-239 with <= 400 in the place of < 400
StainingFilter_le(B) ==
    LET B1 == BagUnion({calc_image_PVcount(G) : G \in ByImage(B)})
    IN  Loc(B1, {r \in DOMAIN B1 : r.moi = 0})
        (+) Loc(B1, {r \in DOMAIN B1 :
                         r.moi # 0 /\ r.image_PVcount > 0 /\ r.image_PVcount <= 400})

\* lines 238-239 without moi != 0 in the second frame of the concatenation
StainingFilter_dup(B) ==
    LET B1 == BagUnion({calc_image_PVcount(G) : G \in ByImage(B)})
    IN  Loc(B1, {r \in DOMAIN B1 : r.moi = 0})
        (+) Loc(B1, {r \in DOMAIN B1 : r.image_PVcount > 0 /\ r.image_PVcount < 400})

\* lines 238-239
StainingFilter(B) ==
    LET B1 == BagUnion({calc_image_PVcount(G) : G \in ByImage(B)})
    IN  Loc(B1, {r \in DOMAIN B1 : r.moi = 0})
        (+) Loc(B1, {r \in DOMAIN B1 :
                         r.moi # 0 /\ r.image_PVcount > 0 /\ r.image_PVcount < 400})

\* lines 238-244
NoParasite ==
    /\ pc = "noparasite"
    /\ pc' \in Outcomes(df = EmptyBag, "background")
    /\ df' = IF pc' = "error" THEN df ELSE StainingFilter(df)
    /\ noparasite_cells' = IF pc' = "error" THEN noparasite_cells
                           ELSE numcells - toolittle_cells - Shape0(StainingFilter(df))
    /\ prev' = df
    /\ UNCHANGED <<files, df_initial, numcells, toolittle_cells, outliercells,
                   oversegmentedcells, uninfectednucintens, subsets, perwell, statdf>>

\* line 247
Background ==
    /\ pc = "background"
    /\ pc' \in Outcomes(df = EmptyBag, "normalize")
    /\ df' = IF pc' = "error" THEN df
             ELSE BagUnion({calc_image_stat(G, "background") : G \in ByImage(df)})
    /\ prev' = df
    /\ UNCHANGED <<files, df_initial, numcells, toolittle_cells, noparasite_cells, outliercells,
                   oversegmentedcells, uninfectednucintens, subsets, perwell, statdf>>

\* line 251: (nuc_intens - image_background) * 10000, missing where the
\* background is missing
NormalizeRow(r) ==
    [r EXCEPT !.nuc_intens = IF r.image_background = NaN THEN NaN
                             ELSE (r.nuc_intens - r.image_background) * 10000]

Normalize ==
    /\ pc = "normalize"
    /\ pc' = "outlier_intens"
    /\ df' = BagOfAll(NormalizeRow, df)
    /\ prev' = df
    /\ UNCHANGED <<files, df_initial, numcells, toolittle_cells, noparasite_cells, outliercells,
                   oversegmentedcells, uninfectednucintens, subsets, perwell, statdf>>

\* lines 254 and 262: df.groupby(['condition', 'timepoint']).apply(remove_outliers_image)
\* R: the groups where the sums of line 65 round
OutlierFilter(B, param, R) ==
    BagUnion({remove_outliers_image(G, param, \E r \in DOMAIN G : ConditionKey(r) \in R) :
                 G \in ByCondition(B)})

\* the groups of B whose images all have the same mean of nuc_intens
Rounding(B) ==
    {k \in {ConditionKey(r) : r \in DOMAIN B} :
        ConstantStat(Loc(B, {r \in DOMAIN B : ConditionKey(r) = k}), "mean_intens")}

\* lines 254-259
OutlierIntens ==
    /\ pc = "outlier_intens"
    /\ pc' \in Outcomes(df = EmptyBag, "outlier_count")
    /\ \E R \in SUBSET Rounding(df) :
           df' = IF pc' = "error" THEN df ELSE OutlierFilter(df, "mean_intens", R)
    /\ outliercells' = IF pc' = "error" THEN outliercells
                       ELSE numcells - toolittle_cells - noparasite_cells - Shape0(df')
    /\ prev' = df
    /\ UNCHANGED <<files, df_initial, numcells, toolittle_cells, noparasite_cells,
                   oversegmentedcells, uninfectednucintens, subsets, perwell, statdf>>

\* lines 262-267
OutlierCount ==
    /\ pc = "outlier_count"
    /\ pc' \in Outcomes(df = EmptyBag, "posnuc")
    /\ df' = IF pc' = "error" THEN df ELSE OutlierFilter(df, "totalcount", {})
    /\ oversegmentedcells' =
           IF pc' = "error" THEN oversegmentedcells
           ELSE numcells - toolittle_cells - noparasite_cells - outliercells - Shape0(df')
    /\ prev' = df
    /\ UNCHANGED <<files, df_initial, numcells, toolittle_cells, noparasite_cells, outliercells,
                   uninfectednucintens, subsets, perwell, statdf>>

\* line 273
Threshold(B) ==
    LET U == Loc(B, {r \in DOMAIN B : r.strain = "null"})
    IN  Quantile(U, [r \in DOMAIN U |-> r.nuc_intens], 99, 100)

\* lines 274-275 with >= in the place of >
Positive_ge(r, threshold) ==
    IF threshold # NaN /\ r.nuc_intens # NaN /\ r.nuc_intens >= threshold THEN 100 ELSE 0

\* lines 274-275
Positive(r, threshold) ==
    IF threshold # NaN /\ r.nuc_intens # NaN /\ r.nuc_intens > threshold THEN 100 ELSE 0

\* lines 273-275
PosNuc ==
    /\ pc = "posnuc"
    /\ pc' \in Outcomes(df = EmptyBag, "t0")
    /\ uninfectednucintens' = IF pc' = "error" THEN uninfectednucintens ELSE Threshold(df)
    /\ df' = IF pc' = "error" THEN df
             ELSE BagOfAll(LAMBDA r : r @@ [pos_nuc |-> Positive(r, Threshold(df))], df)
    /\ prev' = df
    /\ UNCHANGED <<files, df_initial, numcells, toolittle_cells, noparasite_cells, outliercells,
                   oversegmentedcells, subsets, perwell, statdf>>

\* lines 279-286
MakeT0 ==
    /\ pc = "t0"
    /\ pc' = "subsets"
    /\ df' = make_t0(df)
    /\ prev' = df
    /\ UNCHANGED <<files, df_initial, numcells, toolittle_cells, noparasite_cells, outliercells,
                   oversegmentedcells, uninfectednucintens, subsets, perwell, statdf>>

\* lines 295-300: the baseline rows and the rows of B in S at other timepoints
WithBaseline(B, S) ==
    Loc(B, {r \in DOMAIN B : r.timepoint = 0})
    (+) Loc(B, {r \in S : r.timepoint # 0})

\* lines 290-300
Subsets ==
    /\ pc = "subsets"
    /\ pc' = "perwell"
    /\ df' = Loc(df, {r \in DOMAIN df : r.timepoint < 25})
    /\ subsets' = [all       |-> df',
                   inf       |-> WithBaseline(df', {r \in DOMAIN df' : r.count > 1}),
                   singleinf |-> WithBaseline(df', {r \in DOMAIN df' : r.count = 1}),
                   pos       |-> WithBaseline(df', {r \in DOMAIN df' : r.pos_nuc = 100})]
    /\ prev' = df
    /\ UNCHANGED <<files, df_initial, numcells, toolittle_cells, noparasite_cells, outliercells,
                   oversegmentedcells, uninfectednucintens, perwell, statdf>>

\* lines 306-316
PerWell ==
    /\ pc = "perwell"
    /\ pc' \in Outcomes(\E s \in DOMAIN subsets : subsets[s] = EmptyBag, "percondition")
    /\ perwell' = IF pc' = "error" THEN perwell
                  ELSE [s \in DOMAIN subsets |-> per_group_stats(subsets[s], "well")]
    /\ prev' = df
    /\ UNCHANGED <<files, df_initial, df, numcells, toolittle_cells, noparasite_cells, outliercells,
                   oversegmentedcells, uninfectednucintens, subsets, statdf>>

\* lines 322-332
PerCondition ==
    /\ pc = "percondition"
    /\ pc' \in Outcomes(\E s \in DOMAIN perwell : perwell[s] = EmptyBag, "done")
    /\ statdf' = IF pc' = "error" THEN statdf
                 ELSE [s \in DOMAIN perwell |-> per_group_stats(perwell[s], "well_conditions")]
    /\ prev' = df
    /\ UNCHANGED <<files, df_initial, df, numcells, toolittle_cells, noparasite_cells, outliercells,
                   oversegmentedcells, uninfectednucintens, subsets, perwell>>

Next ==
    \/ Read
    \/ Prepare
    \/ Label
    \/ Infection
    \/ Numcells
    \/ TooLittle
    \/ NoParasite
    \/ Background
    \/ Normalize
    \/ OutlierIntens
    \/ OutlierCount
    \/ PosNuc
    \/ MakeT0
    \/ Subsets
    \/ PerWell
    \/ PerCondition

Spec == Init /\ [][Next]_vars

-----------------------------------------------------------------------------
(* Properties.  A nucleus is known by its image and its number in it; the  *)
(* rows of a frame that describe it are counted by Rows.                   *)

Nucleus(r) == <<r.well, r.field, r.timepoint, r.nuc_num>>

ImageOf(r) == <<r.well, r.field, r.timepoint>>

Rows(B, id) == Shape0(Loc(B, {r \in DOMAIN B : Nucleus(r) = id}))

ImageRows(B, k) == Loc(B, {r \in DOMAIN B : ImageOf(r) = k})

\* the parasites counted in the image k of B
ParasiteTotal(B, k) ==
    LET G == ImageRows(B, k) IN SumF([r \in DOMAIN G |-> G[r] * r.count], DOMAIN G)

\* every nucleus has at most as many rows in A as in B
SubFrame(A, B) == \A r \in DOMAIN A : Rows(A, Nucleus(r)) <= Rows(B, Nucleus(r))

\* the row r without the column c
Without(r, c) == [x \in DOMAIN r \ {c} |-> r[x]]

\* the steps between the staining filter and the timepoint-0 synthesis
AfterArtifactFilters ==
    {"background", "normalize", "outlier_intens", "outlier_count", "posnuc", "t0"}

C7_RemovedCounts ==
    /\ pc \in {"noparasite"} \cup AfterArtifactFilters =>
           /\ SubFrame(df, prev)
           /\ SubFrame(df, df_initial)
           /\ Shape0(df) <= Shape0(prev)
    /\ pc = "noparasite" => toolittle_cells = Shape0(prev) - Shape0(df)
    /\ pc = "background" => noparasite_cells = Shape0(prev) - Shape0(df)
    /\ pc = "outlier_count" => outliercells = Shape0(prev) - Shape0(df)
    /\ pc = "posnuc" => oversegmentedcells = Shape0(prev) - Shape0(df)
    /\ pc \in {"posnuc", "t0"} =>
           /\ toolittle_cells >= 0 /\ noparasite_cells >= 0
           /\ outliercells >= 0 /\ oversegmentedcells >= 0
           /\ numcells = Shape0(df_initial)
           /\ toolittle_cells + noparasite_cells + outliercells + oversegmentedcells
                  = numcells - Shape0(df)

\* every stage has removed rows and rows are left
C7_Witness ==
    /\ pc = "posnuc"
    /\ toolittle_cells > 0 /\ noparasite_cells > 0
    /\ outliercells > 0 /\ oversegmentedcells > 0
    /\ df # EmptyBag

\* the statistic of the image k of B: the mean of nuc_intens or the parasite total
PerImageStat(B, k, param) ==
    IF param = "mean_intens"
    THEN MeanInt(ImageRows(B, k), [r \in DOMAIN B |-> r.nuc_intens])
    ELSE Q(ParasiteTotal(B, k), 1)

\* a pass keeps exactly the rows of the images whose statistic is less than
\* k std away from the mean, mean and std taken over one value per image
KeepsByImage(before, after, param, k) ==
    \A g \in {ConditionKey(r) : r \in DOMAIN before} :
        LET G      == Loc(before, {r \in DOMAIN before : ConditionKey(r) = g})
            images == {ImageOf(r) : r \in DOMAIN G}
            T      == SetToBag(images)
            stat   == {<<i, PerImageStat(G, i, param)>> : i \in images}
            V      == [i \in images |-> (CHOOSE p \in stat : p[1] = i)[2]]
            mean   == MeanQ(T, V)
            var    == VarQ(T, V)
        IN  \A r \in DOMAIN G :
                Rows(after, Nucleus(r)) =
                    IF WithinStd(V[ImageOf(r)], mean, var, k) THEN G[r] ELSE 0

\* C3: the mean_intens pass (multiplier 5) and then the totalcount pass
\* (multiplier 3) keep a row exactly when the statistic of its image is
\* strictly less than multiplier x std away from the mean, where the mean and
\* the std of its (condition, timepoint) group count every image once.
C3_PerImageStatistics ==
    /\ pc = "outlier_count" => KeepsByImage(prev, df, "mean_intens", 5)
    /\ pc = "posnuc" => KeepsByImage(prev, df, "totalcount", 3)

\* the steps before the classification
BeforeClassification ==
    {"read", "prepare", "label", "infection", "numcells", "toolittle", "noparasite",
     "background", "normalize", "outlier_intens", "outlier_count", "posnuc"}

\* the uninfected rows of B
Uninfected(B) == Loc(B, {r \in DOMAIN B : r.strain = "null"})

\* C4: the threshold is set by the classification step only, as the 0.99
\* quantile of nuc_intens over the uninfected rows that survived both outlier
\* passes; pos_nuc is 100 on the rows whose nuc_intens is strictly greater
\* than the threshold and 0 on the others, and the rows are otherwise unchanged.
C4_Threshold ==
    /\ [](/\ pc \in BeforeClassification => uninfectednucintens = NaN
          /\ pc = "t0" =>
                 /\ uninfectednucintens =
                        Quantile(Uninfected(prev),
                                 [r \in DOMAIN prev |-> r.nuc_intens], 99, 100)
                 /\ \A r \in DOMAIN df :
                        /\ r.pos_nuc = 100 <=>
                               /\ uninfectednucintens # NaN /\ r.nuc_intens # NaN
                               /\ r.nuc_intens > uninfectednucintens
                        /\ Without(r, "pos_nuc") \in DOMAIN prev
                        /\ df[r] = prev[Without(r, "pos_nuc")]
                 /\ Shape0(df) = Shape0(prev)
          /\ pc \in {"t0", "subsets", "perwell", "percondition", "done"} =>
                 \A r \in DOMAIN df : r.pos_nuc \in {0, 100})
    /\ [][pc # "posnuc" => uninfectednucintens' = uninfectednucintens]_vars

\* a nucleus at the threshold is not positive, a brighter one is
C4_Witness ==
    /\ pc = "t0"
    /\ \E r \in DOMAIN df : r.nuc_intens = uninfectednucintens /\ r.pos_nuc = 0
    /\ \E r \in DOMAIN df : r.nuc_intens > uninfectednucintens /\ r.pos_nuc = 100
    /\ \E r \in DOMAIN df : r.strain # "null" /\ r.pos_nuc = 0

\* the rows of B measured in an uninfected well (plate row P)
FromUninfectedWell(B) == Loc(B, {r \in DOMAIN B : r.row = "P"})

Strains(B) == {r.strain : r \in DOMAIN Loc(B, {r \in DOMAIN B : r.strain # "null"})}

Mois(B) == {r.moi : r \in DOMAIN Loc(B, {r \in DOMAIN B : r.strain # "null"})}

\* C5: make_t0 returns the infected rows unchanged and, for each of the S
\* strains and each of the M mois of the infected rows, one copy of the U
\* uninfected rows at timepoint 0 with that strain, that moi and the condition
\* strain + str(moi): S * M * U rows, S * M distinct (strain, moi, condition)
\* triples, and no row of strain 'null'.
C5_MakeT0 ==
    pc = "subsets" =>
        LET synth == FromUninfectedWell(df)
            U     == Uninfected(prev)
            S     == Strains(prev)
            M     == Mois(prev)
        IN  /\ Loc(df, {r \in DOMAIN df : r.row # "P"})
                   = Loc(prev, {r \in DOMAIN prev : r.strain # "null"})
            /\ Shape0(synth) = Cardinality(S) * Cardinality(M) * Shape0(U)
            /\ \A r \in DOMAIN synth :
                   /\ r.timepoint = 0
                   /\ r.strain \in S /\ r.moi \in M
                   /\ r.condition = r.strain \o MoiStr(r.moi, r.moi_dtype)
            /\ \A s \in S, m \in M :
                   Loc(synth, {r \in DOMAIN synth : r.strain = s /\ r.moi = m})
                       = BagOfAll(LAMBDA r : [r EXCEPT !.timepoint = 0, !.strain = s, !.moi = m,
                                                !.condition = s \o MoiStr(m, r.moi_dtype)], U)
            /\ U # EmptyBag =>
                   Cardinality({<<r.strain, r.moi, r.condition>> : r \in DOMAIN synth})
                       = Cardinality(S) * Cardinality(M)
            /\ \A r \in DOMAIN df : r.strain # "null"

\* two strains and three mois, and uninfected rows to copy
C5_Witness ==
    /\ pc = "subsets"
    /\ Cardinality(Strains(prev)) = 2
    /\ Cardinality(Mois(prev)) = 3
    /\ Uninfected(prev) # EmptyBag
    /\ FromUninfectedWell(df) # EmptyBag

\* the (strain, moi) pairs of the plate
PlatePairs ==
    {plate_columns_map[c] : c \in DOMAIN plate_columns_map}
        \X ({plate_rows_map[x] : x \in DOMAIN plate_rows_map} \ {0})

HasT0(B, p) == \E r \in DOMAIN FromUninfectedWell(B) : r.strain = p[1] /\ r.moi = p[2]

Observed(B, p) == \E r \in DOMAIN B : r.strain # "null" /\ r.strain = p[1] /\ r.moi = p[2]

\* C6 as stated: timepoint-0 rows exist for a (strain, moi) pair exactly when
\* an infected row of the cleaned dataset has that strain and that moi.
C6_ObservedPairsOnly ==
    pc = "subsets" => \A p \in PlatePairs : HasT0(df, p) <=> Observed(prev, p)

\* C6: timepoint-0 rows exist for a (strain, moi) pair exactly when there is an
\* uninfected row, the strain is the strain of an infected row and the moi is
\* the moi of an infected row, of the same row or not.
C6_StrainsTimesMois ==
    pc = "subsets" =>
        \A p \in PlatePairs :
            HasT0(df, p) <=>
                /\ Uninfected(prev) # EmptyBag
                /\ p[1] \in Strains(prev)
                /\ p[2] \in Mois(prev)

\* timepoint-0 rows of a pair that no infected row has
C6_Witness ==
    /\ pc = "subsets"
    /\ \E p \in PlatePairs : HasT0(df, p) /\ ~Observed(prev, p)
    /\ \E p \in PlatePairs : HasT0(df, p) /\ Observed(prev, p)

\* the columns of a statistics table and the columns of the cells they describe
Metrics ==
    {<<"mean_intens", "nuc_intens">>, <<"mean_percentposnuc", "pos_nuc">>,
     <<"mean_percentinf", "infection">>, <<"mean_count", "count">>,
     <<"mean_PVarea", "PV_area">>}

\* equal fractions, or both missing
SameQ(a, b) == IF QIsNaN(a) \/ QIsNaN(b) THEN QIsNaN(a) /\ QIsNaN(b) ELSE QEq(a, b)

\* the cells of the (moi, timepoint, strain) group of the table row g
GroupCells(B, g) ==
    Loc(B, {r \in DOMAIN B :
               r.moi = g.moi /\ r.timepoint = g.timepoint /\ r.strain = g.strain})

WellCells(C, w) == Loc(C, {r \in DOMAIN C : r.well = w})

\* the number of cells of C with a value in column c
Defined(C, c) == Shape0(Loc(C, {r \in DOMAIN C : r[c] # NaN}))

WellMean(C, w, c) == MeanInt(WellCells(C, w), [r \in DOMAIN C |-> r[c]])

\* the mean over the wells of C of the mean of column c in the well
MeanOfWellMeans(C, c) ==
    LET wells == {r.well : r \in DOMAIN C}
        means == {<<w, WellMean(C, w, c)>> : w \in wells}
    IN  MeanQ(SetToBag(wells), [w \in wells |-> (CHOOSE p \in means : p[1] = w)[2]])

\* the mean of column c over the cells of C
DirectMean(C, c) == MeanInt(C, [r \in DOMAIN C |-> r[c]])

\* the wells of C with a value in column c
WellsWith(C, c) == {w \in {r.well : r \in DOMAIN C} : Defined(WellCells(C, w), c) > 0}

\* C8 as stated: the mean of a group is the mean of the per-well means; it is
\* not the mean over the cells when the wells have unequal numbers of cells,
\* and it is the mean over the cells when they have equal numbers of cells.
C8_UnequalWellsDiffer ==
    pc = "done" =>
        \A s \in DOMAIN statdf : \A g \in DOMAIN statdf[s] : \A m \in Metrics :
            LET C     == GroupCells(subsets[s], g)
                sizes == {Shape0(WellCells(C, w)) : w \in {r.well : r \in DOMAIN C}}
            IN  /\ SameQ(g[m[1]], MeanOfWellMeans(C, m[2]))
                /\ Cardinality(sizes) > 1 /\ ~QIsNaN(g[m[1]]) =>
                       ~QEq(g[m[1]], DirectMean(C, m[2]))
                /\ Cardinality(sizes) = 1 /\ ~QIsNaN(g[m[1]]) =>
                       QEq(g[m[1]], DirectMean(C, m[2]))

\* C8: the mean of a group is the mean, over the wells that have a value, of
\* the per-well means.  It is the mean over the cells when those wells have
\* equal numbers of cells with a value or equal means, and it is not when
\* there are two such wells, with unequal numbers and unequal means.
C8_MeanOfWellMeans ==
    pc = "done" =>
        \A s \in DOMAIN statdf : \A g \in DOMAIN statdf[s] : \A m \in Metrics :
            LET C     == GroupCells(subsets[s], g)
                wells == WellsWith(C, m[2])
                sizes == {Defined(WellCells(C, w), m[2]) : w \in wells}
                equalmeans == \A v, w \in wells :
                                  QEq(WellMean(C, v, m[2]), WellMean(C, w, m[2]))
            IN  /\ SameQ(g[m[1]], MeanOfWellMeans(C, m[2]))
                /\ Cardinality(sizes) <= 1 \/ equalmeans =>
                       SameQ(g[m[1]], DirectMean(C, m[2]))
                /\ Cardinality(wells) = 2 /\ Cardinality(sizes) = 2 /\ ~equalmeans =>
                       ~SameQ(g[m[1]], DirectMean(C, m[2]))

\* a group of two wells of unequal size whose mean is not the mean over the
\* cells, one whose mean is, and a group of two wells of equal size whose mean
\* vacuole area is not the mean over the cells
C8_Witness ==
    /\ pc = "done"
    /\ \E g \in DOMAIN statdf.all : \E m \in Metrics :
           LET C == GroupCells(subsets.all, g)
           IN  /\ Cardinality({Shape0(WellCells(C, w)) : w \in {r.well : r \in DOMAIN C}}) = 2
               /\ ~SameQ(g[m[1]], DirectMean(C, m[2]))
    /\ \E g \in DOMAIN statdf.all :
           LET C == GroupCells(subsets.all, g)
           IN  /\ Cardinality({Shape0(WellCells(C, w)) : w \in {r.well : r \in DOMAIN C}}) = 2
               /\ ~QIsNaN(g.mean_percentposnuc)
               /\ SameQ(g.mean_percentposnuc, DirectMean(C, "pos_nuc"))
    /\ \E g \in DOMAIN statdf.all :
           LET C == GroupCells(subsets.all, g)
           IN  /\ Cardinality({r.well : r \in DOMAIN C}) = 2
               /\ Cardinality({Shape0(WellCells(C, w)) : w \in {r.well : r \in DOMAIN C}}) = 1
               /\ ~SameQ(g.mean_PVarea, DirectMean(C, "PV_area"))

\* what raises in the model: no file, no row, no nucleus counted
NothingToProcess ==
    \/ files = <<>>
    \/ df = EmptyBag
    \/ numcells = 0
    \/ \E s \in DOMAIN subsets : subsets[s] = EmptyBag
    \/ \E s \in DOMAIN perwell : perwell[s] = EmptyBag

C10_NeverFails == pc # "error"

\* the rows of the (condition, timepoint) group g of B
GroupRows(B, g) == Loc(B, {r \in DOMAIN B : ConditionKey(r) = g})

\* the images of G all have one and the same value of the statistic
SameStatistic(G, param) ==
    LET stat == {<<i, PerImageStat(G, i, param)>> : i \in {ImageOf(r) : r \in DOMAIN G}}
    IN  \A p, q \in stat : ~QIsNaN(p[2]) /\ QEq(p[2], q[2])

\* the groups of B whose images all have the same value of the statistic
ConstantGroups(B, param) ==
    {g \in {ConditionKey(r) : r \in DOMAIN B} : SameStatistic(GroupRows(B, g), param)}

====
